---- MODULE Spec2Model ----
(***************************************************************************)
(* A model of probot's Probot class (src/src/index.ts) and of              *)
(* getAuthenticatedOctokit (src/src/octokit/get-authenticated-octokit.ts). *)
(*                                                                         *)
(* Four specifications share the variables:                                *)
(*   SpecToken     the installation token cache under concurrent callers   *)
(*   SpecClient    the clients getAuthenticatedOctokit hands out           *)
(*   SpecDispatch  Probot.load / Probot.receive and webhook deliveries     *)
(*   SpecRun       Probot.run, the constructor, start and stop             *)
(* Time is counted in minutes.                                             *)
(***************************************************************************)
EXTENDS Integers, Sequences, FiniteSets, TLC

\* ------------------------------------------------------------------ bounds
MaxId == 2
NumCallers == 2
MaxTicks == 2
MaxExchanges == 2
MaxApps == 3

\* ------------------------------------------------------- program constants
\* 1000 * 60 * 59 ms: the cache's default maxAge
DefaultMaxAge == 59
\* "Cache for 1 minute less than GitHub expiry": the skew margin
SkewMargin == 1
\* JavaScript's undefined, for an optional number
Undefined == -1
\* JavaScript's undefined, for an optional string
UndefinedStr == "<undefined>"

InstallationIds == 0..MaxId
IdArgs == InstallationIds \cup {Undefined}
Callers == 1..NumCallers
\* how far the clock moves in one step
TickSteps == {1, 58}
\* process.env.INSTALLATION_TOKEN_TTL as Number(...) gives it; 0 stands for
\* unset (NaN) and for "0", both falsy
EnvTTLs == {0, 120}
\* the lifetime the platform reports for a token it issues
TokenLifetimes == {30, 60}
GithubTokens == {UndefinedStr, "", "ghtoken"}
ThrottleOptionValues ==
    { [present |-> FALSE, hasId |-> FALSE, id |-> Undefined],
      [present |-> TRUE, hasId |-> FALSE, id |-> Undefined],
      [present |-> TRUE, hasId |-> TRUE, id |-> 99] }

VARIABLES
    githubToken,      \* state.githubToken
    throttleOptions,  \* state.throttleOptions
    maxAge,           \* the LRU cache's maxAge
    cache,            \* state.cache: installationId -> entry
    now,              \* the clock
    ticks,            \* clock steps taken
    inflight,         \* the in-flight registry: id -> serial of its pending exchange, or 0
    pending,          \* the token-exchange requests outstanding at the platform
    started,          \* exchanges started so far
    cacheTouched,     \* whether the cache was ever read or written
    client,           \* the client each caller holds
    call,             \* each caller's last getAuthenticatedOctokit call
    req               \* each caller's one request through its client

VARIABLES
    secretOption,     \* options.secret as the caller passed it
    webhooksSecret,   \* the secret this.webhooks verifies with
    apps,             \* this.apps
    promises,         \* the promise each app's receive returned for the event
    dispatchLen,      \* how many apps were loaded when receive was called
    received,         \* the promise Probot.receive returned: state and reasons
    lastDelivery,     \* the last inbound delivery and the verdict on it
    emitted           \* the bodies of the deliveries emitted to the handlers

VARIABLES
    env,              \* the environment and command line Probot.run reads
    pc,               \* where Probot.run is
    options,          \* what readOptions returned
    startCalls,       \* how often probot.start() was called
    httpServer,       \* this.httpServer
    serverError,      \* the error the HTTP server emitted, if any
    process           \* whether the process runs or has exited

dispatchVars == << secretOption, webhooksSecret, apps, promises, dispatchLen,
                   received, lastDelivery, emitted >>
runVars == << env, pc, options, startCalls, httpServer, serverError, process >>
tokenVars == << githubToken, throttleOptions, maxAge, cache, now, ticks,
                inflight, pending, started, cacheTouched, client, call, req >>

\* ------------------------------------------------------------------ values
Truthy(s) == s /= UndefinedStr /\ s /= ""
\* !installationId for installationId?: number
FalsyNumber(n) == n = Undefined \/ n = 0

NoEntry == [token |-> 0, setAt |-> 0, expiresAt |-> 0]
NoClient == [oid |-> Undefined, auth |-> Undefined, hasThrottle |-> FALSE,
             throttleId |-> Undefined]
\* state.octokit, the application-level client: new Octokit() with no options
AppOctokit == [oid |-> 0, auth |-> Undefined, hasThrottle |-> FALSE,
               throttleId |-> Undefined]
NoCall == [made |-> FALSE, arg |-> Undefined, constructed |-> FALSE]
IdleReq == [st |-> "idle", id |-> Undefined, x |-> 0, token |-> 0, at |-> 0,
            exp |-> 0, reused |-> FALSE]

\* ----------------------------------------------------- the constructor's cache
\* maxAge: Number(process.env.INSTALLATION_TOKEN_TTL) || 1000 * 60 * 59
CacheMaxAge(ttl) == IF ttl /= 0 THEN ttl ELSE DefaultMaxAge

\* lru-cache: an entry is stale once its age exceeds maxAge
IsStale(e) == now - e.setAt > maxAge

CacheGetNoCache(i) == NoEntry

\* cache.get(id): the entry, or NoEntry when absent or stale
CacheGet(i) == IF cache[i].token /= 0 /\ ~IsStale(cache[i]) THEN cache[i] ELSE NoEntry

\* ------------------------------------------------- getAuthenticatedOctokit
ConstructorAuthOptionsNoBypass(installationId) == installationId

\* githubToken ? {} : { auth: { installationId } }
ConstructorAuthOptions(installationId) ==
    IF Truthy(githubToken) THEN Undefined ELSE installationId

ThrottleIdInstallationLast(installationId) == installationId

\* { id: installationId, ...throttleOptions }: a later own property wins
ThrottleId(installationId) ==
    IF throttleOptions.hasId THEN throttleOptions.id ELSE installationId

ReturnedClientAlwaysNew(c, installationId) ==
    [oid |-> c,
     auth |-> ConstructorAuthOptions(installationId),
     hasThrottle |-> throttleOptions.present,
     throttleId |-> IF throttleOptions.present THEN ThrottleId(installationId)
                    ELSE Undefined]

\* the client getAuthenticatedOctokit(state, installationId) returns to caller c
ReturnedClient(c, installationId) ==
    IF FalsyNumber(installationId) THEN AppOctokit
    ELSE [oid |-> c,
          auth |-> ConstructorAuthOptions(installationId),
          hasThrottle |-> throttleOptions.present,
          throttleId |-> IF throttleOptions.present THEN ThrottleId(installationId)
                         ELSE Undefined]

GetAuthenticatedOctokit(c, installationId) ==
    /\ req[c].st = "idle"
    /\ client' = [client EXCEPT ![c] = ReturnedClient(c, installationId)]
    /\ call' = [call EXCEPT ![c] =
                  [made |-> TRUE, arg |-> installationId,
                   constructed |-> ReturnedClient(c, installationId).oid /= 0]]
    /\ UNCHANGED << githubToken, throttleOptions, maxAge, cache, now, ticks,
                    inflight, pending, started, cacheTouched, req >>
    /\ UNCHANGED << dispatchVars, runVars >>
    /\ UNCHANGED << dispatchVars, runVars >>

\* ------------------------------------------------------------ token cache
InFlightNever(i) == FALSE

\* whether an exchange for installation i is registered as in flight
InFlight(i) == inflight[i] /= 0

\* the token-exchange requests outstanding for installation i
Outstanding(i) == { p \in pending : p.id = i }

\* getToken(i) on behalf of caller c: a live cache entry is returned; else the
\* caller awaits the exchange in flight; else it starts the exchange
GetToken(c, i) ==
    LET hit == CacheGet(i) IN
    /\ cacheTouched' = TRUE
    /\ IF hit.token /= 0
       THEN /\ req' = [req EXCEPT ![c] =
                         [st |-> "got", id |-> i, x |-> 0, token |-> hit.token,
                          at |-> now, exp |-> hit.expiresAt, reused |-> TRUE]]
            /\ UNCHANGED << cache, inflight, pending, started >>
       ELSE /\ cache' = [cache EXCEPT ![i] = NoEntry]
            /\ IF InFlight(i)
               THEN /\ req' = [req EXCEPT ![c] =
                                 [IdleReq EXCEPT !.st = "waiting", !.id = i,
                                                 !.x = inflight[i]]]
                    /\ UNCHANGED << inflight, pending, started >>
               ELSE /\ started < MaxExchanges
                    /\ started' = started + 1
                    /\ inflight' = [inflight EXCEPT ![i] = started + 1]
                    /\ pending' = pending \cup {[x |-> started + 1, id |-> i]}
                    /\ req' = [req EXCEPT ![c] =
                                 [IdleReq EXCEPT !.st = "waiting", !.id = i,
                                                 !.x = started + 1]]

\* a request through the client caller c holds: installation auth acquires a
\* token first; the application-level and the static-token client do not
Request(c) ==
    /\ client[c] /= NoClient
    /\ req[c].st = "idle"
    /\ IF client[c].auth = Undefined
       THEN /\ req' = [req EXCEPT ![c] = [IdleReq EXCEPT !.st = "sent"]]
            /\ UNCHANGED << cache, inflight, pending, started, cacheTouched >>
       ELSE GetToken(c, client[c].auth)
    /\ UNCHANGED << githubToken, throttleOptions, maxAge, now, ticks, client, call >>
    /\ UNCHANGED << dispatchVars, runVars >>

\* the platform answers exchange p with a token that lives `life` minutes
ExchangeResolve(p, life) ==
    /\ p \in pending
    /\ pending' = pending \ {p}
    /\ inflight' = [inflight EXCEPT ![p.id] = IF @ = p.x THEN 0 ELSE @]
    /\ cache' = [cache EXCEPT ![p.id] =
                   [token |-> p.x, setAt |-> now, expiresAt |-> now + life]]
    /\ cacheTouched' = TRUE
    /\ req' = [c \in Callers |->
                 IF req[c].st = "waiting" /\ req[c].x = p.x
                 THEN [st |-> "got", id |-> p.id, x |-> 0, token |-> p.x,
                       at |-> now, exp |-> now + life, reused |-> FALSE]
                 ELSE req[c]]
    /\ UNCHANGED << githubToken, throttleOptions, maxAge, now, ticks, started,
                    client, call >>
    /\ UNCHANGED << dispatchVars, runVars >>

\* the exchange fails: nothing is cached, every awaiting caller sees the failure
ExchangeFail(p) ==
    /\ p \in pending
    /\ pending' = pending \ {p}
    /\ inflight' = [inflight EXCEPT ![p.id] = IF @ = p.x THEN 0 ELSE @]
    /\ req' = [c \in Callers |->
                 IF req[c].st = "waiting" /\ req[c].x = p.x
                 THEN [IdleReq EXCEPT !.st = "failed", !.id = p.id]
                 ELSE req[c]]
    /\ UNCHANGED << githubToken, throttleOptions, maxAge, cache, now, ticks,
                    started, cacheTouched, client, call >>
    /\ UNCHANGED << dispatchVars, runVars >>

Tick(d) ==
    /\ ticks < MaxTicks
    /\ ticks' = ticks + 1
    /\ now' = now + d
    /\ UNCHANGED << githubToken, throttleOptions, maxAge, cache, inflight,
                    pending, started, cacheTouched, client, call, req >>
    /\ UNCHANGED << dispatchVars, runVars >>

\* ------------------------------------------------------ webhook deliveries
AppFns == {"appA", "appB"}
SecretOptions == {UndefinedStr, "", "s3cret"}
Bodies == {"hello", "bye"}
SigningSecrets == {"development", "s3cret", "wrong"}

\* the signature of a body under a secret: two signatures agree only when
\* secret and body do (HMAC, taken to be collision-free)
Sign(secret, body) == << secret, body >>

\* the signature headers a delivery may carry; << "", "" >> is a missing or
\* malformed header
SignatureHeaders ==
    { Sign(s, b) : s \in SigningSecrets, b \in Bodies } \cup { << "", "" >> }

\* options.secret = options.secret || "development"
DefaultedSecret(secret) == IF Truthy(secret) THEN secret ELSE "development"

\* the verification this.webhooks makes with the secret it was constructed with
Verify(secret, body, sig) == sig = Sign(secret, body)

\* an inbound delivery reaches this.webhooks: verified, then emitted to handlers
Deliver(body, sig) ==
    /\ lastDelivery' = [made |-> TRUE, body |-> body, sig |-> sig,
                        accepted |-> Verify(webhooksSecret, body, sig)]
    /\ emitted' = IF Verify(webhooksSecret, body, sig) THEN emitted \cup {body}
                  ELSE emitted
    /\ UNCHANGED << secretOption, webhooksSecret, apps, promises, dispatchLen,
                    received >>
    /\ UNCHANGED << tokenVars, runVars >>

\* ----------------------------------------------------- load and receive
\* this.apps after this.apps.push(app)
Pushed(list, appFn) == Append(list, appFn)

\* Probot.load(appFn)
Load(appFn) ==
    /\ Len(apps) < MaxApps
    /\ apps' = Pushed(apps, appFn)
    /\ UNCHANGED << secretOption, webhooksSecret, promises, dispatchLen,
                    received, lastDelivery, emitted >>
    /\ UNCHANGED << tokenVars, runVars >>

Min(S) == CHOOSE x \in S : \A y \in S : x <= y

\* app.receive(event) is asynchronous: a handler that throws gives a rejected
\* promise, any other a promise that settles later
AppReceive(a, throwers) == IF a \in throwers THEN "rejected" ELSE "pending"

MapInvokedUntilThrow(n, throwers) ==
    IF throwers = {} THEN 1..n ELSE 1..Min(throwers)

\* this.apps.map((app) => app.receive(event)): the apps whose receive is called
MapInvoked(n, throwers) == 1..n

\* Promise.all: rejected by the first rejection, with that one reason;
\* fulfilled once every promise is
PromiseAll(prev, ps, rejectedNow) ==
    IF prev.st \in {"fulfilled", "rejected"} THEN prev
    ELSE IF rejectedNow /= {}
         THEN [st |-> "rejected", reasons |-> {Min(rejectedNow)}]
    ELSE IF \A a \in DOMAIN ps : ps[a] = "fulfilled"
         THEN [st |-> "fulfilled", reasons |-> {}]
    ELSE [st |-> "pending", reasons |-> {}]

\* Probot.receive(event)
Receive(throwers) ==
    LET n == Len(apps)
        ps == [a \in 1..n |->
                 IF a \in MapInvoked(n, throwers) THEN AppReceive(a, throwers)
                 ELSE "none"]
    IN
    /\ received.st = "none"
    /\ throwers \subseteq 1..n
    /\ promises' = ps
    /\ dispatchLen' = n
    /\ received' = PromiseAll(received, ps, { a \in 1..n : ps[a] = "rejected" })
    /\ UNCHANGED << secretOption, webhooksSecret, apps, lastDelivery, emitted >>
    /\ UNCHANGED << tokenVars, runVars >>

\* the promise of app a's receive settles
AppSettle(a, outcome) ==
    /\ a \in DOMAIN promises
    /\ promises[a] = "pending"
    /\ promises' = [promises EXCEPT ![a] = outcome]
    /\ received' = PromiseAll(received, promises',
                              IF outcome = "rejected" THEN {a} ELSE {})
    /\ UNCHANGED << secretOption, webhooksSecret, apps, dispatchLen,
                    lastDelivery, emitted >>
    /\ UNCHANGED << tokenVars, runVars >>

\* ------------------------------------------------------------- Probot.run
\* APP_ID as Number(...) or --app give it; Undefined stands for NaN and unset
AppIdValues == {Undefined, 0, 12}
KeyMaterials == {"absent", "usable", "unusable"}
ArgLists == { << >>, << "appA" >>, << "appA", "appB" >> }
PkgAppLists == { << >>, << "appB" >> }
ListenErrors == {"EADDRINUSE", "EACCES"}
Environments ==
    [production : BOOLEAN, gheHostBad : BOOLEAN, appId : AppIdValues,
     keyMaterial : KeyMaterials, isArray : BOOLEAN, args : ArgLists,
     pkgApps : PkgAppLists]

\* defaultAppFns
DefaultAppFns == << "default", "sentry" >>

MissingBoth(o) == FalsyNumber(o.id) /\ ~Truthy(o.privateKey)

\* !options.id || !options.privateKey
Missing(o) == FalsyNumber(o.id) \/ ~Truthy(o.privateKey)

\* findPrivateKey: no key, the key, or a failure on key material it cannot use
RunReadOptions ==
    /\ pc = "idle"
    /\ IF env.keyMaterial = "unusable"
       THEN pc' = "threwKey" /\ UNCHANGED options
       ELSE /\ pc' = "optionsRead"
            /\ options' = [id |-> env.appId,
                           privateKey |-> IF env.keyMaterial = "usable"
                                          THEN "PEM" ELSE UndefinedStr]
    /\ UNCHANGED << env, startCalls, httpServer, serverError, process >>
    /\ UNCHANGED << tokenVars, dispatchVars >>

\* new Probot(options)
Construct ==
    /\ pc = "optionsRead"
    /\ IF env.gheHostBad
       THEN pc' = "threwGheHost" /\ UNCHANGED << webhooksSecret, apps >>
       ELSE /\ pc' = "constructed"
            /\ webhooksSecret' = DefaultedSecret(secretOption)
            /\ apps' = << >>
    /\ UNCHANGED << env, options, startCalls, httpServer, serverError, process >>
    /\ UNCHANGED << secretOption, promises, dispatchLen, received, lastDelivery,
                    emitted >>
    /\ UNCHANGED tokenVars

\* the branch of run after the constructor
RunLoad ==
    /\ pc = "constructed"
    /\ IF Missing(options)
       THEN IF env.production
            THEN /\ pc' = IF FalsyNumber(options.id) THEN "threwAppId"
                          ELSE "threwCert"
                 /\ UNCHANGED apps
            ELSE /\ apps' = Pushed(apps, "setup")
                 /\ pc' = "loaded"
       ELSE IF env.isArray
            THEN pc' = "awaitPkgConf" /\ UNCHANGED apps
            ELSE /\ apps' = Pushed(apps, "appFn")
                 /\ pc' = "loaded"
    /\ UNCHANGED << env, options, startCalls, httpServer, serverError, process >>
    /\ UNCHANGED << secretOption, webhooksSecret, promises, dispatchLen,
                    received, lastDelivery, emitted >>
    /\ UNCHANGED tokenVars

\* probot.setup(program.args.concat(pkg.apps || pkg.plugins || []))
RunSetup ==
    /\ pc = "awaitPkgConf"
    /\ apps' = apps \o env.args \o env.pkgApps \o DefaultAppFns
    /\ pc' = "loaded"
    /\ UNCHANGED << env, options, startCalls, httpServer, serverError, process >>
    /\ UNCHANGED << secretOption, webhooksSecret, promises, dispatchLen,
                    received, lastDelivery, emitted >>
    /\ UNCHANGED tokenVars

\* probot.start(); return probot
RunStart ==
    /\ pc = "loaded"
    /\ startCalls' = startCalls + 1
    /\ httpServer' = "binding"
    /\ pc' = "returned"
    /\ UNCHANGED << env, options, serverError, process >>
    /\ UNCHANGED << tokenVars, dispatchVars >>

\* the listen callback
ListenOk ==
    /\ process = "running"
    /\ httpServer = "binding"
    /\ httpServer' = "listening"
    /\ UNCHANGED << env, pc, options, startCalls, serverError, process >>
    /\ UNCHANGED << tokenVars, dispatchVars >>

OnServerErrorAddrInUseOnly(code) ==
    IF code = "EADDRINUSE" THEN "exited" ELSE "running"

\* the server's error handler: log, then process.exit(1)
OnServerError(code) == "exited"

ListenError(code) ==
    /\ process = "running"
    /\ httpServer = "binding"
    /\ serverError' = code
    /\ httpServer' = "failed"
    /\ process' = OnServerError(code)
    /\ UNCHANGED << env, pc, options, startCalls >>
    /\ UNCHANGED << tokenVars, dispatchVars >>

\* probot.stop()
Stop ==
    /\ process = "running"
    /\ pc = "returned"
    /\ httpServer' = IF httpServer = "none" THEN "none" ELSE "closed"
    /\ UNCHANGED << env, pc, options, startCalls, serverError, process >>
    /\ UNCHANGED << tokenVars, dispatchVars >>

\* ------------------------------------------- token and client: specifications
\* a fresh Probot: an empty cache, no client handed out yet
TokenFresh ==
    /\ cache = [i \in InstallationIds |-> NoEntry]
    /\ now = 0
    /\ ticks = 0
    /\ inflight = [i \in InstallationIds |-> 0]
    /\ pending = {}
    /\ started = 0
    /\ cacheTouched = FALSE
    /\ client = [c \in Callers |-> NoClient]
    /\ call = [c \in Callers |-> NoCall]
    /\ req = [c \in Callers |-> IdleReq]

TokenQuiet ==
    /\ githubToken = UndefinedStr
    /\ throttleOptions = [present |-> FALSE, hasId |-> FALSE, id |-> Undefined]
    /\ maxAge = DefaultMaxAge
    /\ TokenFresh

DispatchQuiet ==
    /\ secretOption = UndefinedStr
    /\ webhooksSecret = UndefinedStr
    /\ apps = << >>
    /\ promises = << >>
    /\ dispatchLen = 0
    /\ received = [st |-> "none", reasons |-> {}]
    /\ lastDelivery = [made |-> FALSE, body |-> "", sig |-> << "", "" >>, accepted |-> FALSE]
    /\ emitted = {}

RunQuiet ==
    /\ env = [production |-> FALSE, gheHostBad |-> FALSE, appId |-> Undefined,
              keyMaterial |-> "absent", isArray |-> FALSE, args |-> << >>,
              pkgApps |-> << >>]
    /\ pc = "idle"
    /\ options = [id |-> Undefined, privateKey |-> UndefinedStr]
    /\ startCalls = 0
    /\ httpServer = "none"
    /\ serverError = "none"
    /\ process = "running"

vars == << tokenVars, dispatchVars, runVars >>

\* app credentials, every cache TTL, the clock running
InitToken ==
    /\ githubToken = UndefinedStr
    /\ throttleOptions = [present |-> FALSE, hasId |-> FALSE, id |-> Undefined]
    /\ maxAge \in { CacheMaxAge(e) : e \in EnvTTLs }
    /\ TokenFresh
    /\ DispatchQuiet
    /\ RunQuiet

NextToken ==
    \/ \E c \in Callers, a \in IdArgs : GetAuthenticatedOctokit(c, a)
    \/ \E c \in Callers : Request(c)
    \/ \E p \in pending, life \in TokenLifetimes : ExchangeResolve(p, life)
    \/ \E p \in pending : ExchangeFail(p)
    \/ \E d \in TickSteps : Tick(d)

SpecToken == InitToken /\ [][NextToken]_vars

\* every credential mode and every throttle configuration, the clock at rest
InitClient ==
    /\ githubToken \in GithubTokens
    /\ throttleOptions \in ThrottleOptionValues
    /\ maxAge = DefaultMaxAge
    /\ TokenFresh
    /\ DispatchQuiet
    /\ RunQuiet

NextClient ==
    \/ \E c \in Callers, a \in IdArgs : GetAuthenticatedOctokit(c, a)
    \/ \E c \in Callers : Request(c)
    \/ \E p \in pending, life \in TokenLifetimes : ExchangeResolve(p, life)
    \/ \E p \in pending : ExchangeFail(p)

SpecClient == InitClient /\ [][NextClient]_vars

\* ------------------------------------------------------ claims: token cache
\* C1: for every installationId at most one token exchange is outstanding at
\* any time, every caller awaiting a token awaits that one exchange, and every
\* caller that acquired a token since the cached entry was stored holds the
\* token of the exchange that stored it.
C1_SingleFlight ==
    \A i \in InstallationIds :
        /\ Cardinality(Outstanding(i)) <= 1
        /\ \A c \in Callers :
               (req[c].st = "waiting" /\ req[c].id = i)
                   => /\ req[c].x = inflight[i]
                      /\ [x |-> inflight[i], id |-> i] \in pending
        /\ \A c \in Callers :
               ( /\ req[c].st = "got"
                 /\ req[c].id = i
                 /\ cache[i].token /= 0
                 /\ req[c].at >= cache[i].setAt )
                   => req[c].token = cache[i].token

\* two callers awaited one exchange, the only one made, and both hold its token
C1_Witness ==
    \E c1, c2 \in Callers :
        /\ c1 /= c2
        /\ req[c1].st = "got" /\ req[c2].st = "got"
        /\ req[c1].id = req[c2].id
        /\ req[c1].token = req[c2].token
        /\ ~req[c1].reused /\ ~req[c2].reused
        /\ started = 1

\* C2: a cached token is never handed out again once the clock is within the
\* skew margin of the expiry the platform reported for it.
C2_Freshness ==
    \A c \in Callers :
        (req[c].st = "got" /\ req[c].reused) => req[c].at < req[c].exp - SkewMargin

\* ----------------------------------------------------------- claims: clients
SuppliedNonZero(c) == call[c].made /\ call[c].arg \in InstallationIds \ {0}

\* C3 as stated: omitted gives state.octokit and no construction; any supplied
\* integer id gives a client other than state.octokit.
C3_Original ==
    \A c \in Callers :
        call[c].made =>
            /\ call[c].arg = Undefined
                   => (client[c] = AppOctokit /\ ~call[c].constructed)
            /\ call[c].arg \in InstallationIds
                   => (client[c] /= AppOctokit /\ call[c].constructed)

\* C3 amended: an omitted or zero installationId gives state.octokit and
\* constructs nothing; a non-zero one gives a newly constructed client, which
\* carries installation auth for that id unless githubToken is set.
C3_Amended ==
    \A c \in Callers :
        call[c].made =>
            /\ FalsyNumber(call[c].arg)
                   => (client[c] = AppOctokit /\ ~call[c].constructed)
            /\ ~FalsyNumber(call[c].arg)
                   => /\ client[c].oid = c
                      /\ call[c].constructed
                      /\ ~Truthy(githubToken) => client[c].auth = call[c].arg

C3_Witness ==
    \E c1, c2 \in Callers :
        /\ call[c1].made /\ call[c1].arg = Undefined
        /\ SuppliedNonZero(c2)

\* C4 as stated: with githubToken no client carries installation auth and no
\* exchange or cache access ever happens; without it a client for any supplied
\* installationId carries installation auth for exactly that id.
C4_Original ==
    /\ Truthy(githubToken)
           => /\ \A c \in Callers : client[c].auth = Undefined
              /\ started = 0 /\ pending = {} /\ ~cacheTouched
    /\ ~Truthy(githubToken)
           => \A c \in Callers :
                  (call[c].made /\ call[c].arg \in InstallationIds)
                      => client[c].auth = call[c].arg

\* C4 amended: the second half holds for every non-zero installationId.
C4_Amended ==
    /\ Truthy(githubToken)
           => /\ \A c \in Callers : client[c].auth = Undefined
              /\ started = 0 /\ pending = {} /\ ~cacheTouched
    /\ ~Truthy(githubToken)
           => \A c \in Callers : SuppliedNonZero(c) => client[c].auth = call[c].arg

\* with githubToken set, a client made for an installation sent its request
C4_Witness ==
    /\ Truthy(githubToken)
    /\ \E c \in Callers : SuppliedNonZero(c) /\ req[c].st = "sent"

\* C5 as stated: every client returned for a supplied installationId is
\* throttled under that id, whatever state.throttleOptions is.
C5_Original ==
    \A c \in Callers :
        (call[c].made /\ call[c].arg \in InstallationIds)
            => (client[c].hasThrottle /\ client[c].throttleId = call[c].arg)

\* C5 amended: for a non-zero installationId the client is given a throttle
\* option exactly when throttleOptions is present; its id is throttleOptions'
\* own id when it has one and the installationId otherwise.
C5_Amended ==
    \A c \in Callers :
        SuppliedNonZero(c) =>
            /\ client[c].hasThrottle = throttleOptions.present
            /\ (throttleOptions.present /\ ~throttleOptions.hasId)
                   => client[c].throttleId = call[c].arg
            /\ (throttleOptions.present /\ throttleOptions.hasId)
                   => client[c].throttleId = throttleOptions.id

C5_Witness ==
    /\ throttleOptions.present /\ throttleOptions.hasId
    /\ \E c \in Callers : SuppliedNonZero(c)

\* ------------------------------------------------- dispatch: specification
InitDispatch ==
    /\ secretOption \in SecretOptions
    /\ webhooksSecret = DefaultedSecret(secretOption)
    /\ apps = << >>
    /\ promises = << >>
    /\ dispatchLen = 0
    /\ received = [st |-> "none", reasons |-> {}]
    /\ lastDelivery = [made |-> FALSE, body |-> "", sig |-> << "", "" >>,
                       accepted |-> FALSE]
    /\ emitted = {}
    /\ TokenQuiet
    /\ RunQuiet

NextDispatch ==
    \/ \E f \in AppFns : Load(f)
    \/ \E t \in SUBSET (1..MaxApps) : Receive(t)
    \/ \E a \in 1..MaxApps, o \in {"fulfilled", "rejected"} : AppSettle(a, o)
    \/ \E b \in Bodies, sig \in SignatureHeaders : Deliver(b, sig)

SpecDispatch == InitDispatch /\ [][NextDispatch]_vars

C7_Aggregate ==
    received.st \in {"fulfilled", "rejected"} =>
        /\ \A a \in 1..dispatchLen : promises[a] \in {"fulfilled", "rejected"}
        /\ received.st = "fulfilled"
               <=> \A a \in 1..dispatchLen : promises[a] = "fulfilled"
        /\ received.st = "rejected"
               => received.reasons = { a \in 1..dispatchLen : promises[a] = "rejected" }

\* C8: while options.secret is absent no delivery is accepted or emitted.
C8_FailClosed ==
    ~Truthy(secretOption) => (~lastDelivery.accepted /\ emitted = {})

\* ------------------------------------------------------ run: specification
InitRun ==
    /\ env \in Environments
    /\ pc = "idle"
    /\ options = [id |-> Undefined, privateKey |-> UndefinedStr]
    /\ startCalls = 0
    /\ httpServer = "none"
    /\ serverError = "none"
    /\ process = "running"
    /\ TokenQuiet
    /\ DispatchQuiet

NextRun ==
    \/ RunReadOptions
    \/ Construct
    \/ RunLoad
    \/ RunSetup
    \/ RunStart
    \/ ListenOk
    \/ \E code \in ListenErrors : ListenError(code)
    \/ Stop

SpecRun == InitRun /\ [][NextRun]_vars

\* --------------------------------------------------------------- claims: run
Threw == pc \in {"threwKey", "threwGheHost", "threwAppId", "threwCert"}
MissingCredentials == FalsyNumber(env.appId) \/ env.keyMaterial /= "usable"
UserApps == {"appFn", "appA", "appB", "default", "sentry"}

\* the apps a run that reaches start is to have loaded
ExpectedApps ==
    IF MissingCredentials THEN << "setup" >>
    ELSE IF env.isArray THEN env.args \o env.pkgApps \o DefaultAppFns
    ELSE << "appFn" >>

\* C9 as stated: startup throws or the process ends only on startup-time
\* misconfiguration; nothing else, a failure to bind the port included, is fatal.
C9_Original ==
    (Threw \/ process = "exited") =>
        \/ env.keyMaterial = "unusable"
        \/ env.gheHostBad
        \/ (env.production /\ MissingCredentials)

\* C9 amended: run throws only on unusable key material, on a GHE_HOST that
\* starts with a protocol, or on a missing id or key in production; the process
\* exits exactly when the HTTP server has emitted an error after start.
C9_Amended ==
    /\ pc = "threwKey" => env.keyMaterial = "unusable"
    /\ pc = "threwGheHost" => env.gheHostBad
    /\ pc \in {"threwAppId", "threwCert"} => (env.production /\ MissingCredentials)
    /\ process = "exited" <=> serverError /= "none"
    /\ process = "exited" => (startCalls = 1 /\ httpServer = "failed")

\* the server failed to bind with a correct configuration and the process exited
C9_Witness ==
    /\ process = "exited"
    /\ serverError = "EACCES"
    /\ ~MissingCredentials /\ ~env.gheHostBad

\* C10: with the id or the key missing no user app is ever loaded; in
\* production run then throws without starting, otherwise only the setup app
\* is loaded; start is called at most once, only in a run that does not throw,
\* and only when all the apps of that run are loaded.
C10_StartupOrder ==
    /\ MissingCredentials => \A k \in 1..Len(apps) : apps[k] \notin UserApps
    /\ (MissingCredentials /\ env.production)
           => /\ startCalls = 0 /\ httpServer = "none" /\ apps = << >>
              /\ pc \in {"idle", "optionsRead", "constructed", "threwKey",
                         "threwGheHost", "threwAppId", "threwCert"}
    /\ Threw => startCalls = 0
    /\ startCalls <= 1
    /\ startCalls > 0 => apps = ExpectedApps
    /\ pc = "returned" <=> startCalls = 1

\* a run without credentials outside production loaded the setup app and started
C10_Witness ==
    /\ pc = "returned"
    /\ MissingCredentials
    /\ apps = << "setup" >>
    /\ startCalls = 1

====
